---- MODULE Spec2Model ----
(***************************************************************************)
(* Red Light / Green Light: the game session held by the useGame hook, the *)
(* timers its effects arm, and the per-frame movement integrator of        *)
(* usePlayerMovement, as one state machine.                                *)
(*                                                                         *)
(* One action is one task of the JavaScript event loop (a command, a timer *)
(* callback, a key event, a rendered frame) together with the React        *)
(* re-render it causes and the effects that re-render runs.                *)
(*                                                                         *)
(* Lengths are whole world units: the integrator's floating-point values   *)
(* are truncated toward zero after every multiplication.                   *)
(***************************************************************************)
EXTENDS Integers, Sequences, FiniteSets, TLC

VARIABLES
    gameState,               \* useGame: 'waiting' | 'countdown' | 'playing' | 'won' | 'eliminated'
    lightState,              \* useGame: 'green' | 'red'
    timeLeft,                \* useGame: seconds left on the game clock
    playerPosition,          \* useGame: last reported forward position
    countdown,               \* useGame: seconds left of the countdown
    countdownTimer,          \* the countdown effect's pending setTimeout: the countdown it captured, or NoTimer
    gameTimer,               \* the game-timer effect's pending setTimeout: the timeLeft it captured, or NoTimer
    initialDelay,            \* the doll effect's first setTimeout(changeLight) is pending
    lightChains,             \* number of pending setTimeout(changeLight) armed by changeLight itself
    positionX,               \* playerGroup.position.x
    positionZ,               \* playerGroup.position.z
    velocityX,               \* velocityRef.current.x
    velocityZ,               \* velocityRef.current.z
    keysDown,                \* key codes physically held down on the keyboard
    keysPressed,             \* keysPressed.current
    wasMovingDuringRedLight, \* wasMovingDuringRedLight.current
    elimTimers               \* pending 100ms setTimeout callbacks of useFrame, oldest first

vars == <<gameState, lightState, timeLeft, playerPosition, countdown, countdownTimer,
          gameTimer, initialDelay, lightChains, positionX, positionZ, velocityX,
          velocityZ, keysDown, keysPressed, wasMovingDuringRedLight, elimTimers>>

----------------------------------------------------------------------------
(* Program constants *)

FINISH_LINE == 30
GAME_DURATION == 60
COUNTDOWN_START == 3
MOVE_SPEED == 8
FRICTION_NUM == 9
FRICTION_DEN == 10
MIN_X == -10
MAX_X == 10
MIN_Z == -5
MAX_Z == 25
START_X == 0
START_Z == -5
POSITION_OFFSET == 5

GameStates == {"waiting", "countdown", "playing", "won", "eliminated"}
LightStates == {"green", "red"}
NoTimer == -1

(* Bounds of the model *)

\* Game-clock firings explored per play-through.
MaxClockFires == 1
\* Self re-arming changeLight timers that may be pending at once.
MaxLightChains == 1
\* Confirmation timers that may be pending at once.
MaxElimTimers == 2
\* Frame time handed to useFrame, in milliseconds.
FrameMs == 250

\* Keys held at once at the start of an integrator run.
MaxHeld == 2
\* Largest speed an integrator run starts with.
MaxInitSpeed == 9

\* Key codes the environment presses.
Keys == {"KeyW", "KeyS"}

\* Key codes useFrame reads.
AllKeys == {"KeyW", "ArrowUp", "KeyS", "ArrowDown", "KeyA", "ArrowLeft", "KeyD", "ArrowRight"}

\* Positions handed to updatePlayerPosition by a direct caller.
ReportInputs == {0, FINISH_LINE \div 2, FINISH_LINE}

----------------------------------------------------------------------------
(* Arithmetic of the integrator *)

Max(a, b) == IF a >= b THEN a ELSE b
Min(a, b) == IF a <= b THEN a ELSE b

\* x * num / den, truncated toward zero
Scaled(x, num, den) == IF x >= 0 THEN (x * num) \div den ELSE -(((-x) * num) \div den)

\* moveVector after normalize() and multiplyScalar(MOVE_SPEED * delta)
MoveLength(delta) == (MOVE_SPEED * delta) \div 1000
MoveComponent(dir, other, delta) ==
    IF dir = 0 THEN 0
    ELSE IF other = 0 THEN dir * MoveLength(delta)
    ELSE dir * Scaled(MoveLength(delta), 7071, 10000)

DirZ(keys) ==
    (IF "KeyS" \in keys \/ "ArrowDown" \in keys THEN 1 ELSE 0)
    - (IF "KeyW" \in keys \/ "ArrowUp" \in keys THEN 1 ELSE 0)
DirX(keys) ==
    (IF "KeyD" \in keys \/ "ArrowRight" \in keys THEN 1 ELSE 0)
    - (IF "KeyA" \in keys \/ "ArrowLeft" \in keys THEN 1 ELSE 0)

\* moveVector.length() > 0
IsMoving(keys, delta) == (DirX(keys) # 0 \/ DirZ(keys) # 0) /\ delta > 0

\* Mutation of AddInput: the input is integrated under either light
AddInputAnyLight(v, move, light) == v + move

\* Mutation of AddInput: the test of the light is inverted
AddInputWhenRed(v, move, light) == IF light = "red" THEN v + move ELSE v

\* velocity.add(moveVector) only during green light
AddInput(v, move, light) == IF light = "green" THEN v + move ELSE v

\* velocity.multiplyScalar(FRICTION)
ApplyFriction(v) == Scaled(v, FRICTION_NUM, FRICTION_DEN)

\* Mutation of ClampX: the right-hand wall is missing
ClampXOneSided(x) == Max(MIN_X, x)

ClampX(x) == Max(MIN_X, Min(MAX_X, x))

\* Mutation of ClampZ: the far wall is missing
ClampZOneSided(z) == Max(MIN_Z, z)

ClampZ(z) == Max(MIN_Z, Min(MAX_Z, z))

\* Mutation of ReportedPosition: the sign of position.z is wrong
ReportedPositionMirrored(z) == Max(0, POSITION_OFFSET - z)

\* Math.max(0, 5 + playerGroup.position.z)
ReportedPosition(z) == Max(0, POSITION_OFFSET + z)

----------------------------------------------------------------------------
(* useGame: commands and effects *)

Session == [gameState |-> gameState, lightState |-> lightState, timeLeft |-> timeLeft,
            playerPosition |-> playerPosition, countdown |-> countdown]

Resources == [countdownTimer |-> countdownTimer, gameTimer |-> gameTimer,
              initialDelay |-> initialDelay, positionX |-> positionX,
              positionZ |-> positionZ]

\* Mutation of startGame: the setLightState('green') call is missing
startGameKeepingLight(s) ==
    [s EXCEPT !.gameState = "countdown", !.countdown = COUNTDOWN_START,
              !.timeLeft = GAME_DURATION, !.playerPosition = 0]

startGame(s) ==
    [s EXCEPT !.gameState = "countdown", !.countdown = COUNTDOWN_START,
              !.timeLeft = GAME_DURATION, !.playerPosition = 0, !.lightState = "green"]

resetGame(s) ==
    [s EXCEPT !.gameState = "waiting", !.timeLeft = GAME_DURATION,
              !.playerPosition = 0, !.countdown = COUNTDOWN_START, !.lightState = "green"]

\* captured is the gameState of the render that created the callback
eliminatePlayer(s, captured) ==
    IF captured = "playing" THEN [s EXCEPT !.gameState = "eliminated"] ELSE s

\* Mutation of updatePlayerPosition: the finish line must be passed, not reached
updatePlayerPositionStrict(s, captured, newPosition) ==
    IF newPosition > FINISH_LINE /\ captured = "playing"
    THEN [s EXCEPT !.playerPosition = newPosition, !.gameState = "won"]
    ELSE [s EXCEPT !.playerPosition = newPosition]

updatePlayerPosition(s, captured, newPosition) ==
    IF newPosition >= FINISH_LINE /\ captured = "playing"
    THEN [s EXCEPT !.playerPosition = newPosition, !.gameState = "won"]
    ELSE [s EXCEPT !.playerPosition = newPosition]

\* setLightState(prev => prev === 'green' ? 'red' : 'green')
toggleLight(s) ==
    [s EXCEPT !.lightState = IF s.lightState = "green" THEN "red" ELSE "green"]

\* Mutation of CountdownEffect: the timer is armed at countdown 0 as well
CountdownEffectPastZero(prev, cur, timer) ==
    IF prev.gameState = cur.gameState /\ prev.countdown = cur.countdown
    THEN [timer |-> timer, gameState |-> cur.gameState]
    ELSE IF cur.gameState = "countdown" /\ cur.countdown >= 0
    THEN [timer |-> cur.countdown, gameState |-> cur.gameState]
    ELSE [timer |-> NoTimer, gameState |-> cur.gameState]

\* Mutation of CountdownEffect: the countdown ends one second early
CountdownEffectEarly(prev, cur, timer) ==
    IF prev.gameState = cur.gameState /\ prev.countdown = cur.countdown
    THEN [timer |-> timer, gameState |-> cur.gameState]
    ELSE IF cur.gameState = "countdown" /\ cur.countdown > 1
    THEN [timer |-> cur.countdown, gameState |-> cur.gameState]
    ELSE IF cur.gameState = "countdown" /\ cur.countdown <= 1
    THEN [timer |-> NoTimer, gameState |-> "playing"]
    ELSE [timer |-> NoTimer, gameState |-> cur.gameState]

\* Countdown logic: the timer the effect leaves pending and the gameState it sets
CountdownEffect(prev, cur, timer) ==
    IF prev.gameState = cur.gameState /\ prev.countdown = cur.countdown
    THEN [timer |-> timer, gameState |-> cur.gameState]
    ELSE IF cur.gameState = "countdown" /\ cur.countdown > 0
    THEN [timer |-> cur.countdown, gameState |-> cur.gameState]
    ELSE IF cur.gameState = "countdown" /\ cur.countdown = 0
    THEN [timer |-> NoTimer, gameState |-> "playing"]
    ELSE [timer |-> NoTimer, gameState |-> cur.gameState]

\* Mutation of GameTimerEffect: the clock eliminates with one second left
GameTimerEffectEarly(prev, cur, timer) ==
    IF prev.gameState = cur.gameState /\ prev.timeLeft = cur.timeLeft
    THEN [timer |-> timer, gameState |-> cur.gameState]
    ELSE IF cur.gameState = "playing" /\ cur.timeLeft > 1
    THEN [timer |-> cur.timeLeft, gameState |-> cur.gameState]
    ELSE IF cur.gameState = "playing" /\ cur.timeLeft <= 1
    THEN [timer |-> NoTimer, gameState |-> "eliminated"]
    ELSE [timer |-> NoTimer, gameState |-> cur.gameState]

\* Mutation of GameTimerEffect: timeLeft is missing from the dependency array
GameTimerEffectOnce(prev, cur, timer) ==
    IF prev.gameState = cur.gameState
    THEN [timer |-> timer, gameState |-> cur.gameState]
    ELSE IF cur.gameState = "playing" /\ cur.timeLeft > 0
    THEN [timer |-> cur.timeLeft, gameState |-> cur.gameState]
    ELSE IF cur.gameState = "playing" /\ cur.timeLeft = 0
    THEN [timer |-> NoTimer, gameState |-> "eliminated"]
    ELSE [timer |-> NoTimer, gameState |-> cur.gameState]

\* Mutation of GameTimerEffect: the effect returns no cleanup
GameTimerEffectNoCleanup(prev, cur, timer) ==
    IF prev.gameState = cur.gameState /\ prev.timeLeft = cur.timeLeft
    THEN [timer |-> timer, gameState |-> cur.gameState]
    ELSE IF cur.gameState = "playing" /\ cur.timeLeft > 0
    THEN [timer |-> cur.timeLeft, gameState |-> cur.gameState]
    ELSE IF cur.gameState = "playing" /\ cur.timeLeft = 0
    THEN [timer |-> NoTimer, gameState |-> "eliminated"]
    ELSE [timer |-> timer, gameState |-> cur.gameState]

\* Mutation of GameTimerEffect: the clock stops at 0 without eliminating
GameTimerEffectNoExpiry(prev, cur, timer) ==
    IF prev.gameState = cur.gameState /\ prev.timeLeft = cur.timeLeft
    THEN [timer |-> timer, gameState |-> cur.gameState]
    ELSE IF cur.gameState = "playing" /\ cur.timeLeft > 0
    THEN [timer |-> cur.timeLeft, gameState |-> cur.gameState]
    ELSE [timer |-> NoTimer, gameState |-> cur.gameState]

\* Game timer: the timer the effect leaves pending and the gameState it sets
GameTimerEffect(prev, cur, timer) ==
    IF prev.gameState = cur.gameState /\ prev.timeLeft = cur.timeLeft
    THEN [timer |-> timer, gameState |-> cur.gameState]
    ELSE IF cur.gameState = "playing" /\ cur.timeLeft > 0
    THEN [timer |-> cur.timeLeft, gameState |-> cur.gameState]
    ELSE IF cur.gameState = "playing" /\ cur.timeLeft = 0
    THEN [timer |-> NoTimer, gameState |-> "eliminated"]
    ELSE [timer |-> NoTimer, gameState |-> cur.gameState]

\* Doll state changes: cleanup clears initialDelay only; the effect arms it on entering playing
DollEffect(prev, cur, pending) ==
    IF prev.gameState = cur.gameState THEN pending
    ELSE cur.gameState = "playing"

\* Player: reset position when game starts (the velocity ref is not touched)
ResetPositionEffect(prev, cur, x, z) ==
    IF prev.gameState # cur.gameState /\ cur.gameState = "countdown"
    THEN <<START_X, START_Z>>
    ELSE <<x, z>>

\* One render: every effect whose dependencies changed since the previous render runs
RunEffects(prev, cur, res) ==
    LET cd == CountdownEffect(prev, cur, res.countdownTimer)
        gt == GameTimerEffect(prev, cur, res.gameTimer)
        p  == ResetPositionEffect(prev, cur, res.positionX, res.positionZ)
        gs == IF cd.gameState # cur.gameState THEN cd.gameState ELSE gt.gameState
    IN [session |-> [cur EXCEPT !.gameState = gs],
        res |-> [countdownTimer |-> cd.timer, gameTimer |-> gt.timer,
                 initialDelay |-> DollEffect(prev, cur, res.initialDelay),
                 positionX |-> p[1], positionZ |-> p[2]]]

\* Re-render until no effect sets state (an effect sets gameState at most once in a row)
Settle(prev, cur, res) ==
    LET r1 == RunEffects(prev, cur, res)
    IN IF r1.session = cur THEN r1 ELSE RunEffects(cur, r1.session, r1.res)

\* The state after a task that left the session as cur and the effect resources as res
Commit(cur, res) ==
    LET r == Settle(Session, cur, res)
    IN /\ gameState' = r.session.gameState
       /\ lightState' = r.session.lightState
       /\ timeLeft' = r.session.timeLeft
       /\ playerPosition' = r.session.playerPosition
       /\ countdown' = r.session.countdown
       /\ countdownTimer' = r.res.countdownTimer
       /\ gameTimer' = r.res.gameTimer
       /\ initialDelay' = r.res.initialDelay
       /\ positionX' = r.res.positionX
       /\ positionZ' = r.res.positionZ

\* Every pending confirmation timer has seen the light green once it is green
SeenGreen(timers, light) ==
    IF light = "green" /\ timers # <<>>
    THEN [i \in 1..Len(timers) |-> [timers[i] EXCEPT !.sawGreen = TRUE]]
    ELSE timers

----------------------------------------------------------------------------
Init ==
    /\ gameState = "waiting"
    /\ lightState = "green"
    /\ timeLeft = GAME_DURATION
    /\ playerPosition = 0
    /\ countdown = COUNTDOWN_START
    /\ countdownTimer = NoTimer
    /\ gameTimer = NoTimer
    /\ initialDelay = FALSE
    /\ lightChains = 0
    /\ positionX = START_X
    /\ positionZ = START_Z
    /\ velocityX = 0
    /\ velocityZ = 0
    /\ keysDown = {}
    /\ keysPressed = {}
    /\ wasMovingDuringRedLight = FALSE
    /\ elimTimers = <<>>

\* The Start button / start()
StartGame ==
    /\ Commit(startGame(Session), Resources)
    /\ elimTimers' = SeenGreen(elimTimers, "green")
    /\ UNCHANGED <<lightChains, velocityX, velocityZ, keysDown, keysPressed, wasMovingDuringRedLight>>

\* The Reset button / reset()
ResetGame ==
    /\ Commit(resetGame(Session), Resources)
    /\ elimTimers' = SeenGreen(elimTimers, "green")
    /\ UNCHANGED <<lightChains, velocityX, velocityZ, keysDown, keysPressed, wasMovingDuringRedLight>>

\* The countdown effect's timer fires: setCountdown(countdown - 1)
CountdownFire ==
    /\ countdownTimer # NoTimer
    /\ Commit([Session EXCEPT !.countdown = countdownTimer - 1],
              [Resources EXCEPT !.countdownTimer = NoTimer])
    /\ UNCHANGED <<lightChains, velocityX, velocityZ, keysDown, keysPressed,
                   wasMovingDuringRedLight, elimTimers>>

\* The game-timer effect's timer fires: setTimeLeft(timeLeft - 1)
GameClockFire ==
    /\ gameTimer # NoTimer
    /\ Commit([Session EXCEPT !.timeLeft = gameTimer - 1],
              [Resources EXCEPT !.gameTimer = NoTimer])
    /\ UNCHANGED <<lightChains, velocityX, velocityZ, keysDown, keysPressed,
                   wasMovingDuringRedLight, elimTimers>>

\* The first MaxClockFires firings of the game clock in a play-through
EarlyGameClockFire ==
    /\ gameTimer > GAME_DURATION - MaxClockFires
    /\ GameClockFire

\* The doll effect's first timer fires: changeLight toggles and arms an untracked timer
InitialDelayFire ==
    /\ initialDelay
    /\ lightChains < MaxLightChains
    /\ Commit(toggleLight(Session), [Resources EXCEPT !.initialDelay = FALSE])
    /\ lightChains' = lightChains + 1
    /\ elimTimers' = SeenGreen(elimTimers, toggleLight(Session).lightState)
    /\ UNCHANGED <<velocityX, velocityZ, keysDown, keysPressed, wasMovingDuringRedLight>>

\* A timer armed by changeLight fires: changeLight toggles and re-arms itself
LightChainFire ==
    /\ lightChains > 0
    /\ Commit(toggleLight(Session), Resources)
    /\ elimTimers' = SeenGreen(elimTimers, toggleLight(Session).lightState)
    /\ UNCHANGED <<lightChains, velocityX, velocityZ, keysDown, keysPressed, wasMovingDuringRedLight>>

\* Mutation of handleKeyDown: the gameActive test is missing
handleKeyDownAlways(keys, gameActive, code) == keys \cup {code}

\* handleKeyDown: if (!gameActive) return; keysPressed.current.add(event.code)
handleKeyDown(keys, gameActive, code) == IF gameActive THEN keys \cup {code} ELSE keys

\* handleKeyUp: keysPressed.current.delete(event.code)
handleKeyUp(keys, code) == keys \ {code}

\* A keydown event for k (the first press or the keyboard's auto-repeat)
KeyDown(k) ==
    /\ keysDown' = keysDown \cup {k}
    /\ keysPressed' = handleKeyDown(keysPressed, gameState = "playing", k)
    /\ UNCHANGED <<gameState, lightState, timeLeft, playerPosition, countdown,
                   countdownTimer, gameTimer, initialDelay, lightChains, positionX,
                   positionZ, velocityX, velocityZ, wasMovingDuringRedLight, elimTimers>>

\* A keydown event that arrives while the game is active
KeyDownWhilePlaying(k) ==
    /\ gameState = "playing"
    /\ KeyDown(k)

\* A keyup event for k, a key that is down
KeyUp(k) ==
    /\ k \in keysDown
    /\ keysDown' = keysDown \ {k}
    /\ keysPressed' = handleKeyUp(keysPressed, k)
    /\ UNCHANGED <<gameState, lightState, timeLeft, playerPosition, countdown,
                   countdownTimer, gameTimer, initialDelay, lightChains, positionX,
                   positionZ, velocityX, velocityZ, wasMovingDuringRedLight, elimTimers>>

\* Mutation of FlagAfterFrame: a violating frame arms the timer but does not set the flag
FlagAfterFrameUnset(light, moving, flag) ==
    IF light = "green" THEN FALSE ELSE flag

\* Mutation of FlagAfterFrame: the flag is what the current frame observes
FlagAfterFrameStrict(light, moving, flag) == light = "red" /\ moving

\* Check for movement during red light: the flag and the timers after the frame
FlagAfterFrame(light, moving, flag) ==
    IF light = "red" /\ moving THEN TRUE
    ELSE IF light = "green" THEN FALSE
    ELSE flag

TimersAfterFrame(light, moving, timers, captured) ==
    IF light = "red" /\ moving
    THEN Append(timers, [gameState |-> captured, sawGreen |-> FALSE])
    ELSE timers

\* The useFrame callback
Frame(delta) ==
    /\ gameState = "playing"
    /\ LET moving == IsMoving(keysPressed, delta)
           mx == MoveComponent(DirX(keysPressed), DirZ(keysPressed), delta)
           mz == MoveComponent(DirZ(keysPressed), DirX(keysPressed), delta)
           vx == ApplyFriction(AddInput(velocityX, mx, lightState))
           vz == ApplyFriction(AddInput(velocityZ, mz, lightState))
           px == ClampX(positionX + vx)
           pz == ClampZ(positionZ + vz)
           timers == TimersAfterFrame(lightState, moving, elimTimers, gameState)
       IN /\ Len(timers) <= MaxElimTimers
          /\ wasMovingDuringRedLight' = FlagAfterFrame(lightState, moving, wasMovingDuringRedLight)
          /\ elimTimers' = timers
          /\ velocityX' = vx
          /\ velocityZ' = vz
          /\ Commit(updatePlayerPosition(Session, gameState, ReportedPosition(pz)),
                    [Resources EXCEPT !.positionX = px, !.positionZ = pz])
    /\ UNCHANGED <<lightChains, keysDown, keysPressed>>

\* A confirmation timer fires
ElimTimerFire ==
    /\ elimTimers # <<>>
    /\ elimTimers' = Tail(elimTimers)
    /\ Commit(IF wasMovingDuringRedLight
              THEN eliminatePlayer(Session, Head(elimTimers).gameState)
              ELSE Session,
              Resources)
    /\ UNCHANGED <<lightChains, velocityX, velocityZ, keysDown, keysPressed, wasMovingDuringRedLight>>

Next ==
    \/ StartGame
    \/ ResetGame
    \/ CountdownFire
    \/ EarlyGameClockFire
    \/ InitialDelayFire
    \/ LightChainFire
    \/ \E k \in Keys : KeyDownWhilePlaying(k)
    \/ \E k \in Keys : KeyUp(k)
    \/ Frame(FrameMs)
    \/ ElimTimerFire

Spec == Init /\ [][Next]_vars

----------------------------------------------------------------------------
(* The program with a player who releases keys only between play-throughs:  *)
(* while playing the held set only grows, so an empty held set means that   *)
(* no key was held on any frame of the current playing phase.               *)

\* A keyup event that arrives while the game is not active
KeyUpBetweenRounds(k) ==
    /\ gameState # "playing"
    /\ KeyUp(k)

NextRounds ==
    \/ StartGame
    \/ ResetGame
    \/ CountdownFire
    \/ EarlyGameClockFire
    \/ InitialDelayFire
    \/ LightChainFire
    \/ \E k \in Keys : KeyDownWhilePlaying(k)
    \/ \E k \in Keys : KeyUpBetweenRounds(k)
    \/ Frame(FrameMs)
    \/ ElimTimerFire

SpecRounds == Init /\ [][NextRounds]_vars

----------------------------------------------------------------------------
(* The program with a keyboard that is used in every phase: keys go down    *)
(* and come up while waiting, during the countdown and after the game ends. *)

NextKeys ==
    \/ StartGame
    \/ ResetGame
    \/ CountdownFire
    \/ InitialDelayFire
    \/ LightChainFire
    \/ \E k \in Keys : KeyDown(k)
    \/ \E k \in Keys : KeyUp(k)
    \/ Frame(FrameMs)
    \/ ElimTimerFire

SpecKeys == Init /\ [][NextKeys]_vars

----------------------------------------------------------------------------
(* Both ways of being eliminated: the game clock for its whole run, and a   *)
(* player who pushes against the start wall and is caught once the signal   *)
(* has turned red.                                                          *)

NextReasons ==
    \/ StartGame
    \/ CountdownFire
    \/ GameClockFire
    \/ InitialDelayFire
    \/ KeyDownWhilePlaying("KeyW")
    \/ Frame(FrameMs)
    \/ ElimTimerFire

SpecReasons == Init /\ [][NextReasons]_vars

----------------------------------------------------------------------------
(* The session alone: commands, both clocks for their whole run, the light  *)
(* timers, and updatePlayerPosition called through the hook's return value. *)

\* updatePlayerPosition(p), the callback of the current render
ReportPosition(p) ==
    /\ Commit(updatePlayerPosition(Session, gameState, p), Resources)
    /\ UNCHANGED <<lightChains, velocityX, velocityZ, keysDown, keysPressed,
                   wasMovingDuringRedLight, elimTimers>>

NextSession ==
    \/ StartGame
    \/ ResetGame
    \/ CountdownFire
    \/ GameClockFire
    \/ InitialDelayFire
    \/ LightChainFire
    \/ \E p \in ReportInputs : ReportPosition(p)

SpecSession == Init /\ [][NextSession]_vars

\* The browser runs a timer callback that is due: the game clock keeps firing
SpecSessionFair == SpecSession /\ WF_vars(GameClockFire)

----------------------------------------------------------------------------
(* The integrator alone: frames from any position inside the track, any     *)
(* velocity up to MaxInitSpeed and any held keys, under either light.       *)

InitPositionsX == {MIN_X, MIN_X + 1, START_X, MAX_X - 1, MAX_X}
InitPositionsZ == {MIN_Z, MIN_Z + 1, 0, MAX_Z - 1}
InitVelocities == {-MaxInitSpeed, -1, 0, 1, MaxInitSpeed}

InitFrame ==
    /\ gameState = "playing"
    /\ lightState \in LightStates
    /\ timeLeft = GAME_DURATION
    /\ countdown = 0
    /\ countdownTimer = NoTimer
    /\ gameTimer = GAME_DURATION
    /\ initialDelay = (lightState = "green")
    /\ lightChains = (IF lightState = "green" THEN 0 ELSE 1)
    /\ positionX \in InitPositionsX
    /\ positionZ \in InitPositionsZ
    /\ playerPosition = ReportedPosition(positionZ)
    /\ velocityX \in InitVelocities
    /\ velocityZ \in InitVelocities
    /\ keysPressed \in {K \in SUBSET AllKeys : Cardinality(K) <= MaxHeld}
    /\ keysDown = keysPressed
    /\ wasMovingDuringRedLight = FALSE
    /\ elimTimers = <<>>

NextFrame ==
    \/ Frame(FrameMs)
    \/ ElimTimerFire

SpecFrame == InitFrame /\ [][NextFrame]_vars

----------------------------------------------------------------------------
TypeOK ==
    /\ gameState \in GameStates
    /\ lightState \in LightStates
    /\ timeLeft \in 0..GAME_DURATION
    /\ countdown \in 0..COUNTDOWN_START
    /\ playerPosition \in 0..FINISH_LINE
    /\ countdownTimer \in {NoTimer} \cup (1..COUNTDOWN_START)
    /\ gameTimer \in {NoTimer} \cup (1..GAME_DURATION)
    /\ initialDelay \in BOOLEAN
    /\ lightChains \in Nat
    /\ positionX \in MIN_X..MAX_X
    /\ positionZ \in MIN_Z..MAX_Z
    /\ keysDown \subseteq Keys
    /\ keysPressed \subseteq keysDown
    /\ wasMovingDuringRedLight \in BOOLEAN
    /\ Len(elimTimers) <= MaxElimTimers

----------------------------------------------------------------------------
(* Claims *)

SessionFields == <<gameState, lightState, timeLeft, playerPosition, countdown>>

\* C1: phase is always one of the five values and every change of phase is
\* start() -> countdown, reset() -> waiting, countdown -> playing by the
\* countdown clock, playing -> won by a position report of a frame, or
\* playing -> eliminated by the game clock or an elimination report; won and
\* eliminated are left only by start() or reset().
PhaseEdgesOnly ==
    [][/\ gameState' \in GameStates
       /\ gameState' # gameState =>
            \/ StartGame /\ gameState' = "countdown"
            \/ ResetGame /\ gameState' = "waiting"
            \/ CountdownFire /\ gameState = "countdown" /\ gameState' = "playing"
            \/ Frame(FrameMs) /\ gameState = "playing" /\ gameState' = "won"
            \/ /\ GameClockFire \/ ElimTimerFire
               /\ gameState = "playing"
               /\ gameState' = "eliminated"]_vars

\* C2: an elimination report that executes while phase is not playing, also
\* one made by a confirmation timer armed while playing, changes no session
\* field.
StaleEliminationIsNoOp ==
    [][ElimTimerFire /\ gameState # "playing" => UNCHANGED SessionFields]_vars

\* C3: outside playing no light-flip timer is pending, and the signal changes
\* outside playing only by start() or reset() forcing it green.
LightScheduleCancelled ==
    /\ [](gameState # "playing" => ~initialDelay /\ lightChains = 0)
    /\ [][gameState # "playing" /\ lightState' # lightState =>
            (StartGame \/ ResetGame) /\ lightState' = "green"]_vars

\* C4: at most one elimination-confirmation timer is outstanding at any time.
AtMostOneConfirmation == Len(elimTimers) <= 1

\* C5: a confirmation timer whose violation was followed by the signal
\* flipping to green does not eliminate the player when it fires under green,
\* whether or not a frame has run under green in between.
GreenFlipRescues ==
    [][/\ ElimTimerFire
       /\ Head(elimTimers).sawGreen
       /\ lightState = "green"
       => ~(gameState = "playing" /\ gameState' = "eliminated")]_vars

\* C6: when the oldest confirmation timer fires while playing and the signal
\* has been red ever since the violating frame that armed it, phase becomes
\* eliminated at that firing.
HeldRedMovementEliminates ==
    [][/\ ElimTimerFire
       /\ gameState = "playing"
       /\ ~Head(elimTimers).sawGreen
       => gameState' = "eliminated"]_vars

\* C6 witness: eliminated by a confirmation under a red light, a key still held.
HeldRedMovementEliminated ==
    /\ gameState = "eliminated"
    /\ lightState = "red"
    /\ wasMovingDuringRedLight
    /\ keysPressed # {}
    /\ elimTimers = <<>>
    /\ timeLeft > 0

\* C7 (as claimed): a frame under red leaves the reported position, hence
\* progress, where it was, whatever the velocity and the keys held.
NoProgressDuringRed ==
    [][Frame(FrameMs) /\ lightState = "red" => playerPosition' = playerPosition]_vars

\* C7 (amended): a frame under red moves the player by exactly the damped
\* residual velocity, whatever keys are held, so progress is unchanged by the
\* frame when the velocity was zero.
RedFrameOnlyGlides ==
    [][Frame(FrameMs) /\ lightState = "red" =>
          /\ positionZ' = ClampZ(positionZ + ApplyFriction(velocityZ))
          /\ playerPosition' = ReportedPosition(positionZ')
          /\ (velocityZ = 0 => playerPosition' = playerPosition)]_vars

\* C7 witness: a frame has run under red with a key held while the player
\* was still gliding forward.
GlidingUnderRed ==
    /\ gameState = "playing"
    /\ lightState = "red"
    /\ wasMovingDuringRedLight
    /\ "KeyS" \in keysPressed
    /\ velocityZ > 0
    /\ playerPosition > 0

\* C8: start() resets the integrator: velocity zero and position at the start.
StartResetsIntegrator ==
    [][StartGame =>
          /\ velocityX' = 0 /\ velocityZ' = 0
          /\ positionX' = START_X /\ positionZ' = START_Z]_vars

\* C9: the signal is green throughout countdown and at the moment phase
\* becomes playing, in every play-through.
GreenUntilPlaying ==
    /\ [](gameState = "countdown" => lightState = "green")
    /\ [][gameState # "playing" /\ gameState' = "playing" => lightState' = "green"]_vars

\* C10: right after start(), from any phase, phase is countdown, countdown is
\* 3, timeLeft is 60, the stored position (and progress) is 0, the signal is
\* green and the countdown clock is armed.
StartYieldsFreshCountdown ==
    [][StartGame =>
          /\ gameState' = "countdown"
          /\ countdown' = COUNTDOWN_START
          /\ timeLeft' = GAME_DURATION
          /\ playerPosition' = 0
          /\ lightState' = "green"
          /\ countdownTimer' = COUNTDOWN_START]_vars

\* C10 witness: a countdown freshly started after an earlier play-through
\* that left the light red at some point and used some of the clock.
RestartedCountdown ==
    /\ gameState = "countdown"
    /\ countdown = COUNTDOWN_START
    /\ countdownTimer = COUNTDOWN_START
    /\ timeLeft = GAME_DURATION
    /\ lightChains > 0
    /\ velocityZ # 0

\* C11: reset() yields waiting with countdown 3, timeLeft 60, position 0 and a
\* green signal and starts no clock, and from then until the next start()
\* phase stays waiting and no session field changes.
ResetYieldsIdleWaiting ==
    /\ [][ResetGame =>
            /\ gameState' = "waiting"
            /\ countdown' = COUNTDOWN_START
            /\ timeLeft' = GAME_DURATION
            /\ playerPosition' = 0
            /\ lightState' = "green"
            /\ countdownTimer' = NoTimer
            /\ gameTimer' = NoTimer]_vars
    /\ [][gameState = "waiting" /\ ~StartGame => UNCHANGED SessionFields]_vars

EnteringPlaying == gameState # "playing" /\ gameState' = "playing"

NoPlayingAtFinishLine ==
    ~(gameState = "playing" /\ playerPosition >= FINISH_LINE)

\* C13 witness: won by a frame that clamped the player at the far wall.
WonAtFinishLine ==
    /\ gameState = "won"
    /\ playerPosition = FINISH_LINE
    /\ positionZ = MAX_Z
    /\ velocityZ > 0

PositionReportIgnoredOutsidePlaying ==
    [][/\ \E p \in ReportInputs : ReportPosition(p)
       /\ gameState # "playing"
       => gameState' = gameState /\ playerPosition' = playerPosition]_vars

\* C16 (as claimed): no frame lowers the stored position, whatever keys are held.
ProgressNeverDecreases ==
    [][Frame(FrameMs) => playerPosition' >= playerPosition]_vars

\* C16 (amended): a frame that leaves the forward velocity non-negative does
\* not lower the stored position, and the stored position never goes below 0.
ProgressFollowsVelocity ==
    /\ [](playerPosition >= 0)
    /\ [][Frame(FrameMs) /\ velocityZ' >= 0 => playerPosition' >= playerPosition]_vars

\* C16 witness: the back key is held under green and has just cancelled the
\* forward velocity, with progress already made.
BackKeyHeldAtRest ==
    /\ gameState = "playing"
    /\ lightState = "green"
    /\ keysPressed = {"KeyW"}
    /\ velocityZ = 0
    /\ playerPosition > 0

\* C17: a green frame with only the forward key KeyW held moves a resting
\* player toward the finish line, as holding it until progress 1 requires.
ForwardKeyAdvances ==
    [][/\ Frame(FrameMs)
       /\ lightState = "green"
       /\ keysPressed = {"KeyW"}
       /\ velocityZ = 0
       => velocityZ' > 0 /\ positionZ' > positionZ]_vars

\* C18: the lateral position is within [-10, 10], the longitudinal position
\* within [-5, 25], and the reported and stored position within [0, 30].
PositionWithinTrack ==
    /\ positionX \in MIN_X..MAX_X
    /\ positionZ \in MIN_Z..MAX_Z
    /\ ReportedPosition(positionZ) \in 0..FINISH_LINE
    /\ playerPosition \in 0..FINISH_LINE

\* C18 witness: a frame under red has carried the player into the right-hand
\* wall and the start wall at once.
StoppedAtTwoWalls ==
    /\ wasMovingDuringRedLight
    /\ positionX = MAX_X
    /\ velocityX > 0
    /\ positionZ = MIN_Z
    /\ velocityZ < 0
    /\ playerPosition = 0

\* C19: at most one light-flip timer is pending at every moment.
AtMostOneLightTimer ==
    (IF initialDelay THEN 1 ELSE 0) + lightChains <= 1

\* C20: a pending countdown clock belongs to the current countdown and a
\* pending game clock to the current playing phase; timeLeft is 60 in waiting
\* and countdown; timeLeft decreases only in playing and countdown only in
\* the countdown phase.
ClocksCancelledWithPhase ==
    /\ [](countdownTimer # NoTimer => gameState = "countdown" /\ countdownTimer = countdown)
    /\ [](gameTimer # NoTimer => gameState = "playing" /\ gameTimer = timeLeft)
    /\ [](gameState \in {"waiting", "countdown"} => timeLeft = GAME_DURATION)
    /\ [][timeLeft' < timeLeft => gameState = "playing"]_vars
    /\ [][countdown' < countdown => gameState = "countdown"]_vars

\* C20 witness: a countdown restarted by start() after a playing phase, with
\* both clocks back at their initial values and no game clock pending.
RestartedWithClockReset ==
    /\ gameState = "countdown"
    /\ countdown = COUNTDOWN_START
    /\ countdownTimer = COUNTDOWN_START
    /\ timeLeft = GAME_DURATION
    /\ gameTimer = NoTimer
    /\ lightChains > 0

\* C21: a frame under red with a non-zero move vector sets the violation
\* flag and arms a confirmation timer; only a frame under green clears the
\* flag (releasing the key or a later frame under red with nothing held does
\* not); a confirmation timer that fires while playing with the flag set
\* makes phase eliminated.
SingleRedTickEliminates ==
    /\ [][Frame(FrameMs) /\ lightState = "red" /\ IsMoving(keysPressed, FrameMs) =>
            /\ wasMovingDuringRedLight'
            /\ Len(elimTimers') = Len(elimTimers) + 1]_vars
    /\ [][wasMovingDuringRedLight /\ ~wasMovingDuringRedLight' =>
            Frame(FrameMs) /\ lightState = "green"]_vars
    /\ [][ElimTimerFire /\ gameState = "playing" /\ wasMovingDuringRedLight =>
            gameState' = "eliminated"]_vars

\* C21 witness: eliminated by a confirmation under red after every key was
\* released, no other confirmation pending.
EliminatedAfterKeyRelease ==
    /\ gameState = "eliminated"
    /\ lightState = "red"
    /\ wasMovingDuringRedLight
    /\ keysDown = {}
    /\ keysPressed = {}
    /\ elimTimers = <<>>
    /\ timeLeft > 0

\* C22: a frame under red leaves each velocity component at exactly its
\* damped value, whatever keys are held, which is between 0 and the value
\* before the frame.
RedFrameOnlyDampsVelocity ==
    [][Frame(FrameMs) /\ lightState = "red" =>
          /\ velocityX' = ApplyFriction(velocityX)
          /\ velocityZ' = ApplyFriction(velocityZ)
          /\ velocityX' \in Min(0, velocityX)..Max(0, velocityX)
          /\ velocityZ' \in Min(0, velocityZ)..Max(0, velocityZ)]_vars

\* C22 witness: a frame under red has run with keys held against both
\* velocity components, which are damped and not reversed.
DampedAgainstHeldKeys ==
    /\ lightState = "red"
    /\ wasMovingDuringRedLight
    /\ keysPressed = {"KeyW", "KeyA"}
    /\ velocityX = ApplyFriction(MaxInitSpeed)
    /\ velocityZ = ApplyFriction(MaxInitSpeed)

\* C23: while playing the game clock is armed with timeLeft between 1 and 60;
\* each of its firings lowers timeLeft by exactly 1 and the one that reaches 0
\* eliminates; playing is left, start() and reset() aside, only for won or
\* eliminated; and with the game clock firing whenever it stays due, playing
\* is always left eventually.
EveryPlayThroughEnds ==
    /\ [](gameState = "playing" => timeLeft \in 1..GAME_DURATION /\ gameTimer = timeLeft)
    /\ [][GameClockFire =>
            /\ gameState = "playing"
            /\ timeLeft' = timeLeft - 1
            /\ (timeLeft' = 0 => gameState' = "eliminated")]_vars
    /\ [][gameState = "playing" /\ gameState' # "playing" /\ ~StartGame /\ ~ResetGame =>
            gameState' \in {"won", "eliminated"}]_vars
    /\ (gameState = "playing" ~> gameState # "playing")

\* C23 witness: a play-through that lasted all 60 firings, the player half
\* way and the light red at the end.
PlayedToTheLastSecond ==
    /\ gameState = "eliminated"
    /\ timeLeft = 0
    /\ countdown = 0
    /\ lightState = "red"
    /\ playerPosition = FINISH_LINE \div 2

\* C24: countdown is an integer in [0, 3] and timeLeft an integer in [0, 60].
ClockCountersInRange ==
    /\ countdown \in 0..COUNTDOWN_START
    /\ timeLeft \in 0..GAME_DURATION

\* C24 witness: both counters at 0 with neither clock armed.
BothCountersAtZero ==
    /\ countdown = 0
    /\ timeLeft = 0
    /\ countdownTimer = NoTimer
    /\ gameTimer = NoTimer
    /\ playerPosition = 0

KeysHeldArePhysicallyDown ==
    /\ [](keysPressed \subseteq keysDown)
    /\ [][\A k \in Keys : KeyDown(k) =>
            keysPressed' = (IF gameState = "playing" THEN keysPressed \cup {k}
                            ELSE keysPressed)]_vars
    /\ [][\A k \in Keys : KeyUp(k) => k \notin keysPressed' /\ k \notin keysDown']_vars
    /\ [][EnteringPlaying => keysPressed' = keysPressed]_vars
    /\ [][Frame(FrameMs) /\ keysPressed = {} =>
            /\ velocityZ' = ApplyFriction(velocityZ)
            /\ elimTimers' = elimTimers]_vars

\* C26 witness: playing after a frame has moved the player, with KeyS down
\* since before the phase became playing and not in the held set.
KeyDownSinceCountdown ==
    /\ gameState = "playing"
    /\ keysDown = {"KeyS"}
    /\ keysPressed = {}
    /\ positionZ > START_Z

\* C27: whenever phase is won the stored position equals the finish line, and
\* while phase is won only start() and reset() change the stored position or
\* the player's position: no frame and no timer does.
WonKeepsFinishPosition ==
    /\ [](gameState = "won" => playerPosition = FINISH_LINE)
    /\ [][gameState = "won" /\ ~StartGame /\ ~ResetGame =>
            /\ playerPosition' = playerPosition
            /\ positionZ' = positionZ]_vars

\* C27 witness: won, the forward key still held and the signal red since.
WonAndLightTurnedRed ==
    /\ gameState = "won"
    /\ playerPosition = FINISH_LINE
    /\ "KeyS" \in keysPressed
    /\ lightState = "red"

\* C28: phase becomes eliminated either by the game clock, and then timeLeft
\* is 0, or by a confirmation timer, and then timeLeft is greater than 0; and
\* timeLeft does not change while phase is eliminated.
EliminationReasonMatchesCause ==
    /\ [][gameState # "eliminated" /\ gameState' = "eliminated" =>
            \/ GameClockFire /\ timeLeft' = 0
            \/ ElimTimerFire /\ timeLeft' > 0]_vars
    /\ [][gameState = "eliminated" /\ gameState' = "eliminated" =>
            timeLeft' = timeLeft]_vars

\* C28 witness: eliminated for a violation under red in the last second.
CaughtInTheLastSecond ==
    /\ gameState = "eliminated"
    /\ timeLeft = 1
    /\ lightState = "red"
    /\ wasMovingDuringRedLight
    /\ gameTimer = NoTimer

====
